---------------------------- MODULE Spec2Model ----------------------------
(***************************************************************************)
(* The two tutorial notebooks as one state machine: the nanoGPT word-level *)
(* text generator and the GPT-Adder addition classifier.  A string is a    *)
(* sequence of code points, a tensor is a record of its shape and data.    *)
(***************************************************************************)
EXTENDS Integers, Sequences, FiniteSets, TLC

(***************************************************************************)
(* Characters.  Python's ord() on the printable ASCII range and "\n".      *)
(***************************************************************************)
Digits == << "0","1","2","3","4","5","6","7","8","9" >>
Upper ==
  << "A","B","C","D","E","F","G","H","I","J","K","L","M",
     "N","O","P","Q","R","S","T","U","V","W","X","Y","Z" >>
Lower ==
  << "a","b","c","d","e","f","g","h","i","j","k","l","m",
     "n","o","p","q","r","s","t","u","v","w","x","y","z" >>
Marks ==
  << <<"\n", 10>>, <<" ", 32>>, <<"!", 33>>, <<"'", 39>>, <<"+", 43>>,
     <<",", 44>>, <<"-", 45>>, <<".", 46>>, <<":", 58>>, <<";", 59>>,
     <<"=", 61>>, <<"?", 63>>, <<"_", 95>> >>

IndexOf(t, c) == CHOOSE i \in 1..Len(t) : t[i] = c

Ord(c) ==
  IF \E i \in 1..Len(Digits) : Digits[i] = c THEN 47 + IndexOf(Digits, c)
  ELSE IF \E i \in 1..Len(Upper) : Upper[i] = c THEN 64 + IndexOf(Upper, c)
  ELSE IF \E i \in 1..Len(Lower) : Lower[i] = c THEN 96 + IndexOf(Lower, c)
  ELSE Marks[CHOOSE i \in 1..Len(Marks) : Marks[i][1] = c][2]

\* a string literal, written as a tuple of one-character strings
S(t) == [i \in 1..Len(t) |-> Ord(t[i])]

\* re's \w on ASCII text: [a-zA-Z0-9_]
IsWordChar(c) ==
  \/ c \in Ord("0")..Ord("9")
  \/ c \in Ord("A")..Ord("Z")
  \/ c \in Ord("a")..Ord("z")
  \/ c = Ord("_")

\* re's \s on ASCII text: [ \t\n\r\f\v] and the separators 0x1c..0x1f
IsSpaceChar(c) == c \in (9..13) \cup (28..32)

\* str.lower() on ASCII text
lower(s) ==
  [i \in 1..Len(s) |-> IF s[i] \in Ord("A")..Ord("Z") THEN s[i] + 32 ELSE s[i]]

(***************************************************************************)
(* nanoGPT notebook: the corpus and the word-level tokenizer.              *)
(***************************************************************************)
text ==
  S(<<"T","o"," ","s","t","a","l","e"," ","'","t"," ","a"," ","l","i","t","t","l","e"," ","m","o","r","e",".","\n">>
    \o <<"\n">>
    \o <<"F","i","r","s","t"," ","C","i","t","i","z","e","n",":","\n">>
    \o <<"W","e","l","l",","," ","I","'","l","l"," ","h","e","a","r"," ","i","t",","," ","s","i","r",":"," ","y","e","t"," ","y","o","u"," ","m","u","s","t"," ","n","o","t"," ","t","h","i","n","k"," ","t","o","\n">>
    \o <<"f","o","b"," ","o","f","f"," ","o","u","r"," ","d","i","s","g","r","a","c","e"," ","w","i","t","h"," ","a"," ","t","a","l","e",":"," ","b","u","t",","," ","a","n"," ","'","t"," ","p","l","e","a","s","e","\n">>
    \o <<"y","o","u",","," ","d","e","l","i","v","e","r",".","\n">>
    \o <<"\n">>
    \o <<"M","E","N","E","N","I","U","S",":","\n">>
    \o <<"T","h","e","r","e"," ","w","a","s"," ","a"," ","t","i","m","e"," ","w","h","e","n"," ","a","l","l"," ","t","h","e"," ","b","o","d","y","'","s"," ","m","e","m","b","e","r","s","\n">>
    \o <<"R","e","b","e","l","l","'","d"," ","a","g","a","i","n","s","t"," ","t","h","e"," ","b","e","l","l","y",","," ","t","h","u","s"," ","a","c","c","u","s","e","d"," ","i","t",":","\n">>
    \o <<"T","h","a","t"," ","o","n","l","y"," ","l","i","k","e"," ","a"," ","g","u","l","f"," ","i","t"," ","d","i","d"," ","r","e","m","a","i","n","\n">>
    \o <<"I","'"," ","t","h","e"," ","m","i","d","s","t"," ","o","'"," ","t","h","e"," ","b","o","d","y",","," ","i","d","l","e"," ","a","n","d"," ","u","n","a","c","t","i","v","e",",","\n">>
    \o <<"S","t","i","l","l"," ","c","u","p","b","o","a","r","d","i","n","g"," ","t","h","e"," ","v","i","a","n","d",","," ","n","e","v","e","r"," ","b","e","a","r","i","n","g","\n">>
    \o <<"L","i","k","e"," ","l","a","b","o","u","r"," ","w","i","t","h"," ","t","h","e"," ","r","e","s","t",","," ","w","h","e","r","e"," ","t","h","e"," ","o","t","h","e","r"," ","i","n","s","t","r","u","m","e","n","t","s","\n">>
    \o <<"D","i","d"," ","s","e","e"," ","a","n","d"," ","h","e","a","r",","," ","d","e","v","i","s","e",","," ","i","n","s","t","r","u","c","t",","," ","w","a","l","k",","," ","f","e","e","l",",","\n">>
    \o <<"A","n","d",","," ","m","u","t","u","a","l","l","y"," ","p","a","r","t","i","c","i","p","a","t","e",","," ","d","i","d"," ","m","i","n","i","s","t","e","r","\n">>
    \o <<"U","n","t","o"," ","t","h","e"," ","a","p","p","e","t","i","t","e"," ","a","n","d"," ","a","f","f","e","c","t","i","o","n"," ","c","o","m","m","o","n","\n">>
    \o <<"O","f"," ","t","h","e"," ","w","h","o","l","e"," ","b","o","d","y","."," ","T","h","e"," ","b","e","l","l","y"," ","a","n","s","w","e","r","'","d","-","-","\n">>
    \o <<"\n">>
    \o <<"F","i","r","s","t"," ","C","i","t","i","z","e","n",":","\n">>
    \o <<"W","e","l","l",","," ","s","i","r",","," ","w","h","a","t"," ","a","n","s","w","e","r"," ","m","a","d","e"," ","t","h","e"," ","b","e","l","l","y","?","\n">>
    \o <<"\n">>
    \o <<"M","E","N","E","N","I","U","S",":","\n">>
    \o <<"S","i","r",","," ","I"," ","s","h","a","l","l"," ","t","e","l","l"," ","y","o","u","."," ","W","i","t","h"," ","a"," ","k","i","n","d"," ","o","f"," ","s","m","i","l","e",",","\n">>
    \o <<"W","h","i","c","h"," ","n","e","'","e","r"," ","c","a","m","e"," ","f","r","o","m"," ","t","h","e"," ","l","u","n","g","s",","," ","b","u","t"," ","e","v","e","n"," ","t","h","u","s","-","-","\n">>
    \o <<"F","o","r",","," ","l","o","o","k"," ","y","o","u",","," ","I"," ","m","a","y"," ","m","a","k","e"," ","t","h","e"," ","b","e","l","l","y"," ","s","m","i","l","e","\n">>
    \o <<"A","s"," ","w","e","l","l"," ","a","s"," ","s","p","e","a","k","-","-","i","t"," ","t","a","u","n","t","i","n","g","l","y"," ","r","e","p","l","i","e","d","\n">>
    \o <<"T","o"," ","t","h","e"," ","d","i","s","c","o","n","t","e","n","t","e","d"," ","m","e","m","b","e","r","s",","," ","t","h","e"," ","m","u","t","i","n","o","u","s"," ","p","a","r","t","s","\n">>
    \o <<"T","h","a","t"," ","e","n","v","i","e","d"," ","h","i","s"," ","r","e","c","e","i","p","t",";"," ","e","v","e","n"," ","s","o"," ","m","o","s","t"," ","f","i","t","l","y","\n">>
    \o <<"A","s"," ","y","o","u"," ","m","a","l","i","g","n"," ","o","u","r"," ","s","e","n","a","t","o","r","s"," ","f","o","r"," ","t","h","a","t","\n">>
    \o <<"T","h","e","y"," ","a","r","e"," ","n","o","t"," ","s","u","c","h"," ","a","s"," ","y","o","u",".">>)

\* \b at the left of position i: the previous character is not a word character
WordBoundaryBefore(s, i) == i = 1 \/ ~IsWordChar(s[i - 1])

\* the end of the longest match of \w+\b that starts at i
WordRunEnd(s, i) ==
  CHOOSE j \in i..Len(s) :
    /\ \A k \in i..j : IsWordChar(s[k])
    /\ j = Len(s) \/ ~IsWordChar(s[j + 1])

\* the positions where a match of \b\w+\b|[^\w\s] starts: the scan goes left to
\* right and a word match takes its whole run, so it never resumes inside a run
MatchStarts(s) ==
  {i \in 1..Len(s) :
     \/ IsWordChar(s[i]) /\ WordBoundaryBefore(s, i)
     \/ ~IsWordChar(s[i]) /\ ~IsSpaceChar(s[i])}

MatchAt(s, i) ==
  IF IsWordChar(s[i]) THEN SubSeq(s, i, WordRunEnd(s, i)) ELSE << s[i] >>

\* re.findall(r'\b\w+\b|[^\w\s]', s): the matches in the order of their positions
nth_start(starts, k) ==
  CHOOSE i \in starts : Cardinality({j \in starts : j < i}) = k - 1

matches_at(s, starts) ==
  [k \in 1..Cardinality(starts) |-> MatchAt(s, nth_start(starts, k))]

findall(s) == matches_at(s, MatchStarts(s))

\* Python's < on two strings: by code point, a proper prefix first
StrLess(u, v) ==
  \E k \in 1..(Len(v)) :
    /\ k <= Len(u) + 1
    /\ \A m \in 1..(k - 1) : u[m] = v[m]
    /\ k = Len(u) + 1 \/ u[k] < v[k]

\* sorted(ws) of a set of strings: the k-th element has k - 1 smaller ones
sorted(ws) ==
  [k \in 1..Cardinality(ws) |->
     CHOOSE w \in ws : Cardinality({v \in ws : StrLess(v, w)}) = k - 1]

Range(f) == {f[x] : x \in DOMAIN f}

\* words = re.findall(..., text.lower()); unique_words = sorted(list(set(words)))
words == findall(lower(text))
unique_words == sorted(Range(words))

\* is `w` a substring of `s` (Python's `w in s` on two strings)
IsSubstring(w, s) ==
  \E i \in 0..(Len(s) - Len(w)) : \A k \in 1..Len(w) : s[i + k] = w[k]


(***************************************************************************)
(* Hyperparameters.  The notebooks' sizes are scaled down where a size     *)
(* only repeats the same step; block_size and ndigit keep their values.    *)
(***************************************************************************)
batch_size == 2
block_size == 10
eval_iters == 1
eval_interval == 2
max_new_tokens == 2
ndigit == 2

\* the generator has RngMod states; the strings and id lists tried are at most
\* MaxLen long, the questions asked at most MaxAskLen, the tests at most MaxTests
RngMod == 16
MaxLen == 3
MaxAskLen == 7
MaxTests == 2
MaxDigitsTest == 3
MaxId == 9
MaxIters == 3
MaxData == 25

RECURSIVE Pow10(_)
Pow10(n) == IF n = 0 THEN 1 ELSE 10 * Pow10(n - 1)

max_answer == (Pow10(ndigit) - 1) + (Pow10(ndigit) - 1)
num_answer_classes == max_answer + 1
max_question_length == ndigit + 1 + ndigit + 1

(***************************************************************************)
(* Results of calls and tensors.                                           *)
(***************************************************************************)
Ok(v) == [ok |-> TRUE, val |-> v, err |-> ""]
Raise(e) == [ok |-> FALSE, val |-> << >>, err |-> e]

NoTensor == [shape |-> << >>, data |-> << >>]

\* torch.tensor(list) of a flat list
tensor1d(l) == [shape |-> << Len(l) >>, data |-> l]

\* torch.tensor(rows) of a list of lists, torch.stack(rows) of 1-d tensors: the
\* rows must have one length
tensor2d(rows) ==
  IF \A i \in 1..Len(rows) : Len(rows[i]) = Len(rows[1])
  THEN Ok([shape |-> << Len(rows), Len(rows[1]) >>, data |-> rows])
  ELSE Raise("ValueError")

stack(rows) ==
  IF \A i \in 1..Len(rows) : Len(rows[i]) = Len(rows[1])
  THEN Ok([shape |-> << Len(rows), Len(rows[1]) >>, data |-> rows])
  ELSE Raise("RuntimeError")

\* t.unsqueeze(0) of a 1-d tensor built from the list l
unsqueeze0(l) == [shape |-> << 1, Len(l) >>, data |-> << l >>]

Min(a, b) == IF a <= b THEN a ELSE b

\* data[lo:hi] for 0 <= lo: Python clamps the slice to the sequence
Slice(data, lo, hi) == SubSeq(data, lo + 1, Min(hi, Len(data)))

(***************************************************************************)
(* The seeded random generators (random, torch): a deterministic function  *)
(* of the generator state.  `pending` holds outputs the state has already  *)
(* determined; after them the state steps.                                 *)
(***************************************************************************)
manual_seed(seed) == [s |-> seed % RngMod, pending |-> << >>]

RngStep(s) == (5 * s + 3) % RngMod

RngAfter(r) ==
  IF r.pending # << >> THEN [r EXCEPT !.pending = Tail(@)]
  ELSE [r EXCEPT !.s = RngStep(@)]

\* the next output as an integer of 0..k-1: a pending output as it is, a state
\* spread over the range
RngBelow(r, k) ==
  IF r.pending # << >> THEN Head(r.pending) % k
  ELSE (RngStep(r.s) * ((k \div RngMod) + 1)) % k

\* random.randint(lo, hi): an integer of lo..hi, both included
randint(r, lo, hi) == lo + RngBelow(r, hi - lo + 1)

\* torch.randint(high, (n,)): n integers of 0..high-1, and the generator after
draw_then(v, rest) == [vals |-> << v >> \o rest.vals, rng |-> rest.rng]

RECURSIVE torch_randint(_, _, _)
torch_randint(r, high, n) ==
  IF n = 0 THEN [vals |-> << >>, rng |-> r]
  ELSE draw_then(RngBelow(r, high), torch_randint(RngAfter(r), high, n - 1))

\* a seeding cell with no torch.manual_seed
seed_cell_without_torch(r, seed) ==
  [r EXCEPT !.py = manual_seed(seed), !.np = manual_seed(seed)]

\* the seeding cell: random.seed(seed); np.random.seed(seed);
\* torch.manual_seed(seed), run on the generators r of a kernel
seed_cell(r, seed) ==
  [py |-> manual_seed(seed), np |-> manual_seed(seed),
   torch |-> manual_seed(seed)]

(***************************************************************************)
(* Adder notebook: the character tokenizer and the problem generator.      *)
(***************************************************************************)
input_chars ==
  S(<< "0","1","2","3","4","5","6","7","8","9","+","="," " >>)

\* str(n) of n >= 0: decimal, no leading zero
RECURSIVE str(_)
str(n) ==
  IF n < 10 THEN << Ord("0") + n >>
  ELSE str(n \div 10) \o << Ord("0") + (n % 10) >>

\* s.rjust(width): the spaces put before s
rjust(s, width) ==
  IF Len(s) >= width THEN s
  ELSE [i \in 1..(width - Len(s)) |-> Ord(" ")] \o s

\* no padding at all
ljust_unpadded(s, width) == s

\* s.ljust(width): spaces appended up to width, s itself when it is longer
ljust(s, width) ==
  IF Len(s) >= width THEN s
  ELSE s \o [i \in 1..(width - Len(s)) |-> Ord(" ")]

\* s.endswith('=')
endswith_eq(s) == Len(s) > 0 /\ s[Len(s)] = Ord("=")

\* the set of sequences over `alphabet` of length at most n
SeqsUpTo(alphabet, n) == UNION {[1..k -> alphabet] : k \in 0..n}

(***************************************************************************)
(* State.                                                                  *)
(***************************************************************************)
VARIABLES
  nb,                 \* the notebook this kernel runs: "nanogpt" or "adder"
  pc,                 \* "fresh", "idle", or the loop the kernel is inside
  rng, rng2,          \* the generator of this run and of a second, identical run
  stoi, itos, vocab_size,
  input_stoi, input_itos, input_vocab_size,
  data_tensor,        \* data = torch.tensor(encode(text)), the encoded text
  train_data, val_data,
  xb, yb, xb2, yb2,   \* the batch get_batch returned last, in each run
  operands,           \* the operand pairs drawn for the rows of that batch
  train_dataset,      \* ModifiedAdditionDataset: questions and answers
  call,               \* the last call made from a cell, and what it returned
  mode,               \* model.training: "train" or "eval"
  fed,                \* the input_ids of the last forward pass
  iter_num, evaluated, caller, ek, updates, reports,
  grad,               \* the parameters' .grad: the losses it sums, none if None
  stepped,            \* the .grad the last optimizer.step applied
  generated, gk,
  tk, tn, td

vocab == << stoi, itos, vocab_size, input_stoi, input_itos, input_vocab_size >>
splits == << data_tensor, train_data, val_data >>
batch == << xb, yb, xb2, yb2, operands >>
loop == << iter_num, evaluated, caller, ek, updates, reports, grad, stepped >>
gen == << generated, gk >>
test == << tk, tn, td >>

vars ==
  << nb, pc, rng, rng2, vocab, splits, batch, train_dataset, call, mode, fed,
     loop, gen, test >>

NoCall == [op |-> "none", arg |-> << >>, res |-> Ok(<< >>)]
Called(op, arg, res) == [op |-> op, arg |-> arg, res |-> res]

(***************************************************************************)
(* nanoGPT: stoi, itos, encode, decode.                                    *)
(***************************************************************************)
\* {word: i for i, word in enumerate(unique_words)}
enumerate_stoi(ws) ==
  [w \in Range(ws) |->
     (CHOOSE i \in 1..Len(ws) :
        ws[i] = w /\ \A j \in (i + 1)..Len(ws) : ws[j] # w) - 1]

\* the ids counted from 1
enumerate_itos_from_one(ws) == [i \in 1..Len(ws) |-> ws[i]]

\* {i: word for i, word in enumerate(unique_words)}
enumerate_itos(ws) == [i \in 0..(Len(ws) - 1) |-> ws[i + 1]]

\* [st[word] for word in ws if word in st]
known_ids(st, known) == [k \in 1..Len(known) |-> st[known[k]]]

\* an encode that gives an unknown word the id 0 in place of leaving it out
ids_of_words_unknown_as_zero(st, ws) ==
  [k \in 1..Len(ws) |-> IF ws[k] \in DOMAIN st THEN st[ws[k]] ELSE 0]

ids_of_words(st, ws) ==
  known_ids(st, SelectSeq(ws, LAMBDA w : w \in DOMAIN st))

\* encode(s): words = re.findall(..., s.lower()), then the ids of the known ones
encode(s) == ids_of_words(stoi, findall(lower(s)))

\* decode with no space put before a word
decode_piece_unspaced(word, i) == word

\* the text decode appends for the i-th word (i from 0)
decode_piece(word, i) ==
  IF IsSubstring(word, S(<< ".", ",", "!", "?", ";", ":" >>)) THEN word
  ELSE IF i = 0 THEN word
  ELSE << Ord(" ") >> \o word

RECURSIVE decode_join(_, _)
decode_join(ws, n) ==
  IF n = 0 THEN << >>
  ELSE decode_join(ws, n - 1) \o decode_piece(ws[n], n - 1)

\* decode(l) for ids of the vocabulary
decode(l) == decode_join([k \in 1..Len(l) |-> itos[l[k]]], Len(l))

\* decode(l) as called: itos[i] raises KeyError for an id outside the vocabulary
decode_call(l) ==
  IF \E k \in 1..Len(l) : l[k] \notin DOMAIN itos THEN Raise("KeyError")
  ELSE Ok(decode(l))

\* data = train_data if split == 'train' else val_data
split_data(split) == IF split = "train" THEN train_data ELSE val_data

\* an x read from the training split whatever split was asked for
get_batch_x_of_train(data, ix) ==
  stack([b \in 1..Len(ix) |-> Slice(train_data, ix[b], ix[b] + block_size)])

\* x = torch.stack([data[i:i+block_size] for i in ix])
get_batch_x(data, ix) ==
  stack([b \in 1..Len(ix) |-> Slice(data, ix[b], ix[b] + block_size)])

\* the target window taken two tokens after the input's start
get_batch_y_window_shifted(data, i) == Slice(data, i + 2, i + block_size + 2)

\* y = torch.stack([data[i+1:i+block_size+1] for i in ix])
get_batch_y_window(data, i) == Slice(data, i + 1, i + block_size + 1)

get_batch_y(data, ix) ==
  stack([b \in 1..Len(ix) |-> get_batch_y_window(data, ix[b])])

\* return x, y -- or the error torch.stack raised
get_batch_return(x, y, ix) ==
  IF ~x.ok THEN x
  ELSE IF ~y.ok THEN y
  ELSE Ok([x |-> x.val, y |-> y.val, ix |-> ix])

get_batch_at(data, ix) ==
  [res |-> get_batch_return(get_batch_x(data, ix.vals),
                            get_batch_y(data, ix.vals), ix.vals),
   rng |-> ix.rng]

\* a start drawn anywhere in the data
get_batch_of_any_start(r, data) ==
  IF Len(data) <= 0
  THEN [res |-> Raise("RuntimeError"), rng |-> r]
  ELSE get_batch_at(data, torch_randint(r, Len(data), batch_size))

\* ix = torch.randint(len(data) - block_size, (batch_size,))
get_batch_of(r, data) ==
  IF Len(data) - block_size <= 0
  THEN [res |-> Raise("RuntimeError"), rng |-> r]
  ELSE get_batch_at(data, torch_randint(r, Len(data) - block_size, batch_size))

\* get_batch(split) run on the generator state r
get_batch(r, split) == get_batch_of(r, split_data(split))

\* the forward pass of GPT2 with n_positions positions: the position embedding
\* has no row for a longer input
forward(input_ids, n_positions) ==
  IF input_ids.shape[2] > n_positions THEN Raise("IndexError") ELSE Ok(<< >>)

(***************************************************************************)
(* Adder: input_stoi, input_itos, encode_input, decode_input, the data.    *)
(***************************************************************************)
chars_stoi(cs) ==
  [c \in Range(cs) |->
     (CHOOSE i \in 1..Len(cs) :
        cs[i] = c /\ \A j \in (i + 1)..Len(cs) : cs[j] # c) - 1]
chars_itos(cs) == [i \in 0..(Len(cs) - 1) |-> cs[i + 1]]

\* [input_stoi[c] for c in s]
encode_input(s) == [k \in 1..Len(s) |-> input_stoi[s[k]]]

\* an encode_input that leaves out the characters it does not know
encode_input_call_skipping(s) ==
  Ok(encode_input(SelectSeq(s, LAMBDA c : c \in DOMAIN input_stoi)))

encode_input_call(s) ==
  IF \E k \in 1..Len(s) : s[k] \notin DOMAIN input_stoi THEN Raise("KeyError")
  ELSE Ok(encode_input(s))

\* decode_input that joins the characters last to first
decode_input_reversed(l) == [k \in 1..Len(l) |-> input_itos[l[Len(l) + 1 - k]]]

\* ''.join([input_itos[i] for i in l])
decode_input(l) == [k \in 1..Len(l) |-> input_itos[l[k]]]

decode_input_call(l) ==
  IF \E k \in 1..Len(l) : l[k] \notin DOMAIN input_itos THEN Raise("KeyError")
  ELSE Ok(decode_input(l))

\* f"{a}+{b}="
question_of(a, b) == str(a) \o << Ord("+") >> \o str(b) \o << Ord("=") >>

\* the answer kept to two digits
addition_problem_two_digits(a, b, r) ==
  [question |-> question_of(a, b), answer |-> (a + b) % 100, a |-> a, b |-> b,
   rng |-> r]

\* the product in place of the sum
multiplication_problem(a, b, r) ==
  [question |-> question_of(a, b), answer |-> a * b, a |-> a, b |-> b,
   rng |-> r]

\* question = f"{a}+{b}="; return question, c -- with c = a + b
addition_problem(a, b, r) ==
  [question |-> question_of(a, b), answer |-> a + b, a |-> a, b |-> b,
   rng |-> r]

\* generate_addition_data(num_digits) run on the generator state r:
\* a = random.randint(0, 10**num_digits - 1), then b the same
generate_addition_data(r, num_digits) ==
  addition_problem(randint(r, 0, Pow10(num_digits) - 1),
                   randint(RngAfter(r), 0, Pow10(num_digits) - 1),
                   RngAfter(RngAfter(r)))

\* the padded and encoded question of one row
pad_and_encode(q_str) == encode_input_call(ljust(q_str, max_question_length))

\* questions.append(q_encoded); answers.append(a) -- unless encode_input raised
append_row(g, e, rest) ==
  IF ~e.ok
  THEN [questions |-> << >>, answers |-> << >>, ops |-> << >>,
        ok |-> FALSE, rng |-> g.rng]
  ELSE [questions |-> << e.val >> \o rest.questions,
        answers |-> << g.answer >> \o rest.answers,
        ops |-> << << g.a, g.b >> >> \o rest.ops,
        ok |-> rest.ok, rng |-> rest.rng]

\* the rows get_batch builds: n calls of generate_addition_data, each padded
\* and encoded
RECURSIVE addition_rows(_, _, _)
RECURSIVE rows_from(_, _, _)
rows_from(g, num_digits, k) ==
  append_row(g, pad_and_encode(g.question),
             addition_rows(g.rng, num_digits, k - 1))

addition_rows(r, num_digits, k) ==
  IF k = 0 THEN [questions |-> << >>, answers |-> << >>, ops |-> << >>,
                 ok |-> TRUE, rng |-> r]
  ELSE rows_from(generate_addition_data(r, num_digits), num_digits, k)

\* y returned as a column, one row per answer
adder_batch_return_column(rows, x) ==
  [res |-> IF ~rows.ok THEN Raise("KeyError")
           ELSE IF ~x.ok THEN x
           ELSE Ok([x |-> x.val,
                    y |-> [shape |-> << Len(rows.answers), 1 >>,
                           data |-> [i \in 1..Len(rows.answers) |->
                                       << rows.answers[i] >>]],
                    ix |-> rows.ops]),
   rng |-> rows.rng]

\* x = torch.tensor(questions); y = torch.tensor(answers); return x, y
adder_batch_return(rows, x) ==
  [res |-> IF ~rows.ok THEN Raise("KeyError")
           ELSE IF ~x.ok THEN x
           ELSE Ok([x |-> x.val, y |-> tensor1d(rows.answers),
                    ix |-> rows.ops]),
   rng |-> rows.rng]

adder_batch_of(rows) == adder_batch_return(rows, tensor2d(rows.questions))

\* get_batch() of the adder run on the generator state r
adder_get_batch(r) == adder_batch_of(addition_rows(r, ndigit, batch_size))

(***************************************************************************)
(* A fresh kernel, and the cells that define the notebook's state.         *)
(***************************************************************************)
\* before the seeding cell the generators of a kernel (Python's random, numpy's,
\* torch's) are in any state, set from the entropy the kernel started with
Unseeded ==
  {[py |-> u, np |-> u, torch |-> u] :
     u \in {[s |-> e, pending |-> << >>] : e \in 0..(RngMod - 1)}}

NoBatch ==
  /\ xb = NoTensor /\ yb = NoTensor /\ xb2 = NoTensor /\ yb2 = NoTensor
  /\ operands = << >>

NoLoop ==
  /\ iter_num = 0 /\ evaluated = FALSE /\ caller = "idle" /\ ek = 0
  /\ updates = 0 /\ reports = << >>
  /\ grad = << >> /\ stepped = << >>

NoOutputs ==
  /\ NoBatch
  /\ train_dataset = [questions |-> << >>, answers |-> << >>]
  /\ call = NoCall
  /\ fed = NoTensor
  /\ NoLoop
  /\ generated = << >> /\ gk = 0
  /\ tk = 0 /\ tn = 0 /\ td = 0

Init ==
  /\ nb \in {"nanogpt", "adder"}
  /\ pc = "fresh"
  /\ rng \in Unseeded /\ rng2 \in Unseeded
  /\ stoi = << >> /\ itos = << >> /\ vocab_size = 0
  /\ input_stoi = << >> /\ input_itos = << >> /\ input_vocab_size = 0
  /\ data_tensor = << >> /\ train_data = << >> /\ val_data = << >>
  /\ mode = "train"
  /\ NoOutputs

\* data = torch.tensor(encode(text)) with the vocabulary just built
data == ids_of_words(enumerate_stoi(unique_words), words)

\* n = int(0.5*len(data))
n == Len(data) \div 2

\* the half rounded up
int_half_up(len) == (len + 1) \div 2

\* int(0.5*len(data)) for a length len
int_half(len) == len \div 2

\* train_data = data[:n]
train_split(d) == SubSeq(d, 1, int_half(Len(d)))

\* val_data = data[n:]
val_split(d) == SubSeq(d, int_half(Len(d)) + 1, Len(d))

\* the nanoGPT cells up to the model and the optimizer, run on a fresh kernel
\* whose text encodes to d; g1 and g2 are the states the seeding cell leaves
\* the generators of the two runs in
NanoSetupOf(d, g1, g2) ==
  /\ pc = "fresh" /\ nb = "nanogpt"
  /\ pc' = "idle"
  /\ rng' = g1 /\ rng2' = g2
  /\ stoi' = enumerate_stoi(unique_words)
  /\ itos' = enumerate_itos(unique_words)
  /\ vocab_size' = Len(unique_words)
  /\ data_tensor' = d
  /\ train_data' = train_split(d)
  /\ val_data' = val_split(d)
  /\ mode' = "train"
  /\ UNCHANGED << nb, input_stoi, input_itos, input_vocab_size, batch,
                  train_dataset, call, fed, loop, gen, test >>

\* the cells run on the notebook's text
NanoSetupWith(g1, g2) == NanoSetupOf(data, g1, g2)

NanoSetup == NanoSetupWith(seed_cell(rng, 1), seed_cell(rng2, 1))

\* the adder cells up to the model and the optimizer, run on a fresh kernel
AdderSetupWith(g1, g2) ==
  /\ pc = "fresh" /\ nb = "adder"
  /\ pc' = "idle"
  /\ rng' = g1 /\ rng2' = g2
  /\ input_stoi' = chars_stoi(input_chars)
  /\ input_itos' = chars_itos(input_chars)
  /\ input_vocab_size' = Len(input_chars)
  /\ mode' = "train"
  /\ UNCHANGED << nb, stoi, itos, vocab_size, splits, batch, train_dataset,
                  call, fed, loop, gen, test >>

AdderSetup == AdderSetupWith(seed_cell(rng, 42), seed_cell(rng2, 42))

(***************************************************************************)
(* Running a cell.  A cell's results stay until the next cell is run; no   *)
(* cell reads the results of another, so a cell starts from none.          *)
(***************************************************************************)
ClearBatch ==
  /\ xb' = NoTensor /\ yb' = NoTensor /\ xb2' = NoTensor /\ yb2' = NoTensor
  /\ operands' = << >>

ClearDataset == train_dataset' = [questions |-> << >>, answers |-> << >>]

\* the loop's counters start anew; the model keeps its gradients
ClearLoop ==
  /\ iter_num' = 0 /\ evaluated' = FALSE /\ caller' = "idle" /\ ek' = 0
  /\ updates' = 0 /\ reports' = << >>
  /\ UNCHANGED << grad, stepped >>

ClearGen == generated' = << >> /\ gk' = 0

ClearTest == tk' = 0 /\ tn' = 0 /\ td' = 0

\* the batch g1 (this run) and g2 (the second run) that get_batch returned; a
\* call that raised assigns nothing
TakeBatch(g1, g2) ==
  /\ rng' = g1.rng /\ rng2' = g2.rng
  /\ IF g1.res.ok
     THEN /\ xb' = g1.res.val.x /\ yb' = g1.res.val.y
          /\ operands' = g1.res.val.ix
     ELSE UNCHANGED << xb, yb, operands >>
  /\ IF g2.res.ok
     THEN xb2' = g2.res.val.x /\ yb2' = g2.res.val.y
     ELSE UNCHANGED << xb2, yb2 >>

\* a call that drew from torch's generator, from random's
on_torch(r, g) == [res |-> g.res, rng |-> [r EXCEPT !.torch = g.rng]]
on_py(r, g) == [res |-> g.res, rng |-> [r EXCEPT !.py = g.rng]]

\* get_batch as the running notebook defines it, on the generators r of a
\* kernel: nanoGPT's draws from torch's generator, the adder's from random's
GetBatchOf(r, split) ==
  IF nb = "nanogpt" THEN on_torch(r, get_batch(r.torch, split))
  ELSE on_py(r, adder_get_batch(r.py))

\* n_positions of the model's GPT2Config
n_positions == IF nb = "nanogpt" THEN block_size ELSE max_question_length

(***************************************************************************)
(* The tokenizer cells.                                                    *)
(***************************************************************************)
PureCall(c) ==
  /\ pc = "idle"
  /\ call' = c
  /\ ClearBatch /\ ClearDataset /\ ClearLoop /\ ClearGen /\ ClearTest
  /\ fed' = NoTensor
  /\ UNCHANGED << nb, pc, rng, rng2, vocab, splits, mode >>

\* an encode that gives an unknown word the next free id
EncodeCallLearning(s) ==
  /\ nb = "nanogpt" /\ pc = "idle"
  /\ stoi' = [w \in DOMAIN stoi \cup Range(findall(lower(s))) |->
               IF w \in DOMAIN stoi THEN stoi[w] ELSE vocab_size]
  /\ vocab_size' = vocab_size + 1
  /\ call' = Called("encode", s, Ok(encode(s)))
  /\ ClearBatch /\ ClearDataset /\ ClearLoop /\ ClearGen /\ ClearTest
  /\ fed' = NoTensor
  /\ UNCHANGED << nb, pc, rng, rng2, itos, input_stoi, input_itos,
                  input_vocab_size, splits, mode >>

EncodeCall(s) ==
  nb = "nanogpt" /\ PureCall(Called("encode", s, Ok(encode(s))))

DecodeCall(l) ==
  nb = "nanogpt" /\ PureCall(Called("decode", l, decode_call(l)))

EncodeInputCall(s) ==
  nb = "adder" /\ PureCall(Called("encode_input", s, encode_input_call(s)))

DecodeInputCall(l) ==
  nb = "adder" /\ PureCall(Called("decode_input", l, decode_input_call(l)))

(***************************************************************************)
(* The batch sampler called from a cell.                                   *)
(***************************************************************************)
\* the argument of the call: the split's name in nanoGPT, none in the adder
get_batch_arg(split) ==
  IF nb # "nanogpt" THEN << >>
  ELSE IF split = "train" THEN S(<< "t", "r", "a", "i", "n" >>)
  ELSE S(<< "v", "a", "l" >>)

GetBatchReturn(arg, g1, g2) ==
  /\ TakeBatch(g1, g2)
  /\ call' = Called("get_batch", arg, IF g1.res.ok THEN Ok(<< >>) ELSE g1.res)

GetBatchCall(split) ==
  /\ pc = "idle"
  /\ GetBatchReturn(get_batch_arg(split),
                    GetBatchOf(rng, split), GetBatchOf(rng2, split))
  /\ ClearDataset /\ ClearLoop /\ ClearGen /\ ClearTest
  /\ fed' = NoTensor
  /\ UNCHANGED << nb, pc, vocab, splits, mode >>

\* __init__: for _ in range(num_samples): a problem, padded and encoded, is
\* appended to self.questions and its answer to self.answers
DatasetBuilt(rows, rows2) ==
  /\ rng' = [rng EXCEPT !.py = rows.rng]
  /\ rng2' = [rng2 EXCEPT !.py = rows2.rng]
  /\ train_dataset' =
       IF rows.ok
       THEN [questions |-> rows.questions, answers |-> rows.answers]
       ELSE [questions |-> << >>, answers |-> << >>]
  /\ call' = Called("ModifiedAdditionDataset", rows.ops,
                    IF rows.ok THEN Ok(<< >>) ELSE Raise("KeyError"))

\* ModifiedAdditionDataset(num_digits, num_samples, max_question_len) of the
\* notebook's earlier version
DatasetInit(num_samples) ==
  /\ pc = "idle" /\ nb = "adder"
  /\ DatasetBuilt(addition_rows(rng.py, ndigit, num_samples),
                  addition_rows(rng2.py, ndigit, num_samples))
  /\ ClearBatch /\ ClearLoop /\ ClearGen /\ ClearTest
  /\ fed' = NoTensor
  /\ UNCHANGED << nb, pc, vocab, splits, mode >>

(***************************************************************************)
(* estimate_loss and the training loop.                                    *)
(***************************************************************************)
\* max_iters is 5000 in nanoGPT and 10000 in the adder: scaled down to
\* MaxIters, whose last step is a multiple of eval_interval, and to
\* MaxIters + 1, whose last step is not, so that the loops meet both cases of
\* the evaluation condition
max_iters == IF nb = "nanogpt" THEN MaxIters ELSE MaxIters + 1

\* an evaluation at the multiples of eval_interval only
EvalDueOnInterval == iter_num % eval_interval = 0

EvalDue == iter_num % eval_interval = 0 \/ iter_num = max_iters - 1

\* the cell starts the loop: for iter_num in range(max_iters)
TrainStart ==
  /\ pc = "idle"
  /\ pc' = "train"
  /\ iter_num' = 0 /\ evaluated' = FALSE /\ caller' = "idle" /\ ek' = 0
  /\ updates' = 0 /\ reports' = << >>
  /\ UNCHANGED << grad, stepped >>
  /\ call' = Called("train", << >>, Ok(<< >>))
  /\ ClearBatch /\ ClearDataset /\ ClearGen /\ ClearTest
  /\ fed' = NoTensor
  /\ UNCHANGED << nb, rng, rng2, vocab, splits, mode >>

\* if iter_num % eval_interval == 0 or iter_num == max_iters - 1: estimate_loss()
TrainEval ==
  /\ pc = "train" /\ iter_num < max_iters /\ EvalDue /\ ~evaluated
  /\ pc' = "estimate" /\ caller' = "train"
  /\ mode' = "eval"
  /\ ek' = 0
  /\ UNCHANGED << nb, rng, rng2, vocab, splits, batch, train_dataset, call,
                  fed, iter_num, evaluated, updates, reports, grad, stepped,
                  gen, test >>

\* logits, loss = model(X, Y) on the batch g that get_batch returned
forward_batch(g) ==
  IF g.res.ok THEN forward(g.res.val.x, n_positions) ELSE g.res

\* X, Y = get_batch(split); the forward pass; losses[k] = loss.item()
EstimateForward(g1, g2, out) ==
  /\ TakeBatch(g1, g2)
  /\ fed' = IF g1.res.ok THEN g1.res.val.x ELSE fed
  /\ IF out.ok
     THEN /\ ek' = ek + 1
          /\ UNCHANGED << pc, call >>
     ELSE /\ pc' = "idle"
          /\ call' = [call EXCEPT !.res = out]
          /\ UNCHANGED ek

EstimateBatch(g1, g2) == EstimateForward(g1, g2, forward_batch(g1))

\* for split in ['train', 'val']: for k in range(eval_iters)
estimate_split == IF ek < eval_iters THEN "train" ELSE "val"

\* one pass of estimate_loss's inner loop: a batch of the split and a forward
\* pass; the first eval_iters passes take 'train', the next eval_iters 'val'
EstimateStep ==
  /\ pc = "estimate" /\ ek < 2 * eval_iters
  /\ EstimateBatch(GetBatchOf(rng, estimate_split),
                   GetBatchOf(rng2, estimate_split))
  /\ UNCHANGED << nb, vocab, splits, train_dataset, mode, iter_num, evaluated,
                  caller, updates, reports, grad, stepped, gen, test >>

\* a print that counts the steps from 1
report_of_next_step(step, ups) == [step |-> step + 1, updates |-> ups]

\* print(f"step {iter_num}: train loss ..."): the metrics of the model as it
\* is, after ups updates, printed for step
report_of(step, ups) == [step |-> step, updates |-> ups]

\* an estimate_loss with no model.train() at its end
EstimateReturnInEval ==
  /\ pc = "estimate" /\ ek = 2 * eval_iters
  /\ mode' = mode
  /\ pc' = caller
  /\ IF caller = "train"
     THEN /\ evaluated' = TRUE
          /\ reports' = Append(reports, report_of(iter_num, updates))
     ELSE UNCHANGED << evaluated, reports >>
  /\ UNCHANGED << nb, rng, rng2, vocab, splits, batch, train_dataset, call,
                  fed, iter_num, caller, ek, updates, grad, stepped, gen, test >>

\* model.train(); return out -- and, in the loop, the print of the metrics
EstimateReturn ==
  /\ pc = "estimate" /\ ek = 2 * eval_iters
  /\ mode' = "train"
  /\ pc' = caller
  /\ IF caller = "train"
     THEN /\ evaluated' = TRUE
          /\ reports' = Append(reports, report_of(iter_num, updates))
     ELSE UNCHANGED << evaluated, reports >>
  /\ UNCHANGED << nb, rng, rng2, vocab, splits, batch, train_dataset, call,
                  fed, iter_num, caller, ek, updates, grad, stepped, gen, test >>

\* loss = outputs.loss of the forward pass of iteration step
loss_of(step) == [step |-> step]

\* a zero_grad that leaves the gradients as they are
zero_grad_keeping(g) == g

\* optimizer.zero_grad(set_to_none=True): the gradients are None
zero_grad(g) == << >>

\* loss.backward(): the gradient of the loss is added to .grad
backward(g, loss) == Append(g, loss)

\* a loop that accumulates gradients: optimizer.step in every second iteration
TrainForwardAccumulating(g1, g2, out) ==
  /\ TakeBatch(g1, g2)
  /\ fed' = IF g1.res.ok THEN g1.res.val.x ELSE fed
  /\ IF out.ok
     THEN /\ grad' = backward(zero_grad(grad), loss_of(iter_num))
          /\ stepped' = IF iter_num % 2 = 1 THEN grad' ELSE stepped
          /\ updates' = IF iter_num % 2 = 1 THEN updates + 1 ELSE updates
          /\ iter_num' = iter_num + 1
          /\ evaluated' = FALSE
          /\ UNCHANGED << pc, call >>
     ELSE /\ pc' = "idle"
          /\ call' = [call EXCEPT !.res = out]
          /\ UNCHANGED << updates, iter_num, evaluated, grad, stepped >>

\* the forward pass, optimizer.zero_grad, loss.backward, optimizer.step
TrainForward(g1, g2, out) ==
  /\ TakeBatch(g1, g2)
  /\ fed' = IF g1.res.ok THEN g1.res.val.x ELSE fed
  /\ IF out.ok
     THEN /\ grad' = backward(zero_grad(grad), loss_of(iter_num))
          /\ stepped' = grad'
          /\ updates' = updates + 1
          /\ iter_num' = iter_num + 1
          /\ evaluated' = FALSE
          /\ UNCHANGED << pc, call >>
     ELSE /\ pc' = "idle"
          /\ call' = [call EXCEPT !.res = out]
          /\ UNCHANGED << updates, iter_num, evaluated, grad, stepped >>

TrainBatch(g1, g2) == TrainForward(g1, g2, forward_batch(g1))

\* the rest of an iteration: get_batch, the forward pass, zero_grad, backward,
\* optimizer.step
TrainStep ==
  /\ pc = "train" /\ iter_num < max_iters /\ (~EvalDue \/ evaluated)
  /\ TrainBatch(GetBatchOf(rng, "train"), GetBatchOf(rng2, "train"))
  /\ UNCHANGED << nb, vocab, splits, train_dataset, mode, caller, ek, reports,
                  gen, test >>

\* range(max_iters) is exhausted
TrainEnd ==
  /\ pc = "train" /\ iter_num = max_iters
  /\ pc' = "idle"
  /\ UNCHANGED << nb, rng, rng2, vocab, splits, batch, train_dataset, call,
                  mode, fed, loop, gen, test >>

\* estimate_loss() called from a cell
EstimateCall ==
  /\ pc = "idle"
  /\ pc' = "estimate" /\ caller' = "idle"
  /\ mode' = "eval"
  /\ ek' = 0
  /\ iter_num' = 0 /\ evaluated' = FALSE /\ updates' = 0 /\ reports' = << >>
  /\ UNCHANGED << grad, stepped >>
  /\ call' = Called("estimate_loss", << >>, Ok(<< >>))
  /\ ClearBatch /\ ClearDataset /\ ClearGen /\ ClearTest
  /\ fed' = NoTensor
  /\ UNCHANGED << nb, rng, rng2, vocab, splits >>

(***************************************************************************)
(* nanoGPT: the generation cell.                                           *)
(***************************************************************************)
text_test ==
  S(<< "s","i","r",":"," ","y","e","t"," ","y","o","u"," ","m","u","s","t"," ",
       "n","o","t"," ","t","h","i","n","k"," ","t","o"," ","f","o","b"," ",
       "o","f","f"," ","o","u","r"," ","d","i","s","g","r","a","c","e"," ",
       "w","i","t","h"," ","a"," ","t","a","l","e" >>)

\* the whole sequence, not cropped
context_uncropped(g) == g

\* generated[:, -block_size:] if generated.size(1) > block_size else generated
context_cropped(g) ==
  IF Len(g) > block_size THEN SubSeq(g, Len(g) - block_size + 1, Len(g)) ELSE g

\* model.eval(); context = torch.tensor(encode(text_test)).unsqueeze(0)
GenerateStart(tt) ==
  /\ pc = "idle" /\ nb = "nanogpt"
  /\ pc' = "generate"
  /\ mode' = "eval"
  /\ generated' = encode(tt) /\ gk' = 0
  /\ call' = Called("generate", tt, Ok(<< >>))
  /\ ClearBatch /\ ClearDataset /\ ClearLoop /\ ClearTest
  /\ fed' = NoTensor
  /\ UNCHANGED << nb, rng, rng2, vocab, splits >>

\* logits = model(context).logits on the cropped context
forward_context(cropped) ==
  IF Len(cropped) = 0 THEN Raise("IndexError")
  ELSE forward(unsqueeze0(cropped), n_positions)

\* a loop that stops, appending nothing, when the sampled token is an even id
GenerateForwardStopping(cropped, out, next_token) ==
  /\ fed' = unsqueeze0(cropped)
  /\ IF out.ok /\ next_token % 2 = 1
     THEN /\ generated' = Append(generated, next_token)
          /\ gk' = gk + 1
          /\ rng' = [rng EXCEPT !.torch = RngAfter(@)]
          /\ rng2' = [rng2 EXCEPT !.torch = RngAfter(@)]
          /\ UNCHANGED << pc, call >>
     ELSE /\ pc' = "idle"
          /\ call' = [call EXCEPT !.res = IF out.ok THEN decode_call(generated)
                                          ELSE out]
          /\ UNCHANGED << generated, gk, rng, rng2 >>

\* next_token = torch.multinomial(probs, 1); generated = torch.cat(...)
GenerateForward(cropped, out, next_token) ==
  /\ fed' = unsqueeze0(cropped)
  /\ IF out.ok
     THEN /\ generated' = Append(generated, next_token)
          /\ gk' = gk + 1
          /\ rng' = [rng EXCEPT !.torch = RngAfter(@)]
          /\ rng2' = [rng2 EXCEPT !.torch = RngAfter(@)]
          /\ UNCHANGED << pc, call >>
     ELSE /\ pc' = "idle"
          /\ call' = [call EXCEPT !.res = out]
          /\ UNCHANGED << generated, gk, rng, rng2 >>

GenerateOn(cropped) ==
  GenerateForward(cropped, forward_context(cropped),
                  RngBelow(rng.torch, vocab_size))

\* one pass of the loop: crop, forward, sample the next token, append it
GenerateStep ==
  /\ pc = "generate" /\ gk < max_new_tokens
  /\ GenerateOn(context_cropped(generated))
  /\ UNCHANGED << nb, vocab, splits, batch, train_dataset, mode, loop, test >>

\* generated_text = decode(generated[0].tolist())
GenerateEnd ==
  /\ pc = "generate" /\ gk = max_new_tokens
  /\ pc' = "idle"
  /\ call' = [call EXCEPT !.res = decode_call(generated)]
  /\ UNCHANGED << nb, rng, rng2, vocab, splits, batch, train_dataset, mode,
                  fed, loop, gen, test >>

(***************************************************************************)
(* Adder: test_model_addition and ask_adder.                               *)
(***************************************************************************)
\* test_model_addition(num_tests, num_digits_test): model.eval()
TestStart(num_tests, num_digits_test) ==
  /\ pc = "idle" /\ nb = "adder"
  /\ pc' = "test"
  /\ mode' = "eval"
  /\ tk' = 0 /\ tn' = num_tests /\ td' = num_digits_test
  /\ call' = Called("test_model_addition", << num_tests, num_digits_test >>,
                    Ok(<< >>))
  /\ ClearBatch /\ ClearDataset /\ ClearLoop /\ ClearGen
  /\ fed' = NoTensor
  /\ UNCHANGED << nb, rng, rng2, vocab, splits >>

\* logits = model(question_tensor) on the encoded question e
forward_question(e) ==
  IF e.ok THEN forward(unsqueeze0(e.val), n_positions) ELSE e

TestForward(g, g2, e, out) ==
  /\ rng' = [rng EXCEPT !.py = g.rng]
  /\ rng2' = [rng2 EXCEPT !.py = g2.rng]
  /\ fed' = IF e.ok THEN unsqueeze0(e.val) ELSE fed
  /\ operands' = << << g.a, g.b >> >>
  /\ IF out.ok
     THEN /\ tk' = tk + 1
          /\ UNCHANGED << pc, call >>
     ELSE /\ pc' = "idle"
          /\ call' = [call EXCEPT !.res = out]
          /\ UNCHANGED tk

TestEncoded(g, g2, e) == TestForward(g, g2, e, forward_question(e))

TestQuestion(g, g2) == TestEncoded(g, g2, pad_and_encode(g.question))

\* one test: draw a and b, pad and encode the question, the forward pass
TestStep ==
  /\ pc = "test" /\ tk < tn
  /\ TestQuestion(generate_addition_data(rng.py, td),
                  generate_addition_data(rng2.py, td))
  /\ UNCHANGED << nb, vocab, splits, xb, yb, xb2, yb2, train_dataset, mode,
                  loop, gen, tn, td >>

\* accuracy = (correct_predictions / num_tests) * 100; model.train()
TestEnd ==
  /\ pc = "test" /\ tk = tn
  /\ pc' = "idle"
  /\ IF tn = 0
     THEN /\ call' = [call EXCEPT !.res = Raise("ZeroDivisionError")]
          /\ UNCHANGED mode
     ELSE /\ mode' = "train"
          /\ UNCHANGED call
  /\ UNCHANGED << nb, rng, rng2, vocab, splits, batch, train_dataset, fed,
                  loop, gen, test >>

\* a question that gets '=' appended whatever its end
ask_question_always_appending(problem_input) ==
  problem_input \o << Ord("=") >>

\* the question ask_adder builds: '=' appended unless the input ends with it
ask_question(problem_input) ==
  IF ~endswith_eq(problem_input) THEN problem_input \o << Ord("=") >>
  ELSE problem_input

AskForward(problem_input, question, e, out) ==
  /\ fed' = IF e.ok THEN unsqueeze0(e.val) ELSE NoTensor
  /\ mode' = IF out.ok THEN "train" ELSE "eval"
  /\ call' = Called("ask_adder", problem_input,
                    IF out.ok THEN Ok(question) ELSE out)

AskEncoded(problem_input, question, e) ==
  AskForward(problem_input, question, e, forward_question(e))

AskQuestion(problem_input, question) ==
  AskEncoded(problem_input, question, pad_and_encode(question))

\* ask_adder(problem_input)
AskAdder(problem_input) ==
  /\ pc = "idle" /\ nb = "adder"
  /\ AskQuestion(problem_input, ask_question(problem_input))
  /\ ClearBatch /\ ClearDataset /\ ClearLoop /\ ClearGen /\ ClearTest
  /\ UNCHANGED << nb, pc, rng, rng2, vocab, splits >>

(***************************************************************************)
(* The notebook as a whole: any cell may be run once the kernel is idle,   *)
(* with the inputs the notebooks use and a few more.                       *)
(***************************************************************************)
ProbeTexts ==
  { S(<< "a","n"," ","a","n","s","w","e","r" >>),
    S(<< "A","n"," ","a","n","s","w","e","r",","," ","s","i","r","!" >>),
    S(<< "a","n","s","w","e","r","'","d","-","-","i","t" >>),
    S(<< "z","z","z" >>),
    << >> }

ProbeIds == { << 12, 14 >>, << 14, 0, 26, 2, 2 >>, << 7, 123 >>, << >> }

ProbeQuestions ==
  { S(<< "2","+","3","=" >>), S(<< "2","+","3","="," " >>),
    S(<< "2","+","3" >>), S(<< "9","9","+","9","9","=" >>),
    S(<< "1","0","0","+","1","0","0" >>), S(<< "2","-","3" >>), << >> }

ProbeInputIds == { << 2, 10, 3, 11 >>, << 2, 10, 3, 11, 12 >>, << 13 >>, << >> }

Next ==
  \/ NanoSetup
  \/ AdderSetup
  \/ \E s \in ProbeTexts : EncodeCall(s)
  \/ \E l \in ProbeIds : DecodeCall(l)
  \/ \E s \in ProbeQuestions : EncodeInputCall(s)
  \/ \E l \in ProbeInputIds : DecodeInputCall(l)
  \/ \E split \in {"train", "val"} : GetBatchCall(split)
  \/ \E num_samples \in 1..MaxTests : DatasetInit(num_samples)
  \/ TrainStart
  \/ TrainEval
  \/ EstimateCall
  \/ EstimateStep
  \/ EstimateReturn
  \/ TrainStep
  \/ TrainEnd
  \/ \E tt \in {text_test} \cup ProbeTexts : GenerateStart(tt)
  \/ GenerateStep
  \/ GenerateEnd
  \/ \E num_tests \in 0..MaxTests, num_digits_test \in 1..MaxDigitsTest :
       TestStart(num_tests, num_digits_test)
  \/ TestStep
  \/ TestEnd
  \/ \E p \in ProbeQuestions : AskAdder(p)

Spec == Init /\ [][Next]_vars

(***************************************************************************)
(* The tokenizers and ask_adder on every input up to a length.             *)
(***************************************************************************)
TestChars == { Ord("a"), Ord("n"), Ord("A"), Ord("'"), Ord(","), Ord(" "), Ord("-") }

AskChars == { Ord("1"), Ord("+"), Ord("=") }

\* a character that is not one of the input vocabulary
OtherChars == { Ord("-") }

\* a kernel makes one such call: the calls are pure, so a call made after
\* another returns what it returns when made first
NextTok ==
  \/ NanoSetup
  \/ AdderSetup
  \/ call = NoCall /\ \E s \in SeqsUpTo(TestChars, MaxLen) : EncodeCall(s)
  \/ call = NoCall /\ \E l \in SeqsUpTo(0..(MaxId - 1), MaxLen) : DecodeCall(l)
  \/ call = NoCall /\ \E s \in SeqsUpTo(Range(input_chars) \cup OtherChars,
                                         MaxLen) :
                        \E padded \in BOOLEAN :
                          EncodeInputCall(IF padded
                                          THEN ljust(s, max_question_length)
                                          ELSE s)
  \/ call = NoCall /\ \E l \in SeqsUpTo(0..(Len(input_chars) - 1), MaxLen) :
                        DecodeInputCall(l)
  \/ call = NoCall /\ \E p \in SeqsUpTo(AskChars, MaxAskLen)
                                  \cup SeqsUpTo(AskChars \cup OtherChars, MaxLen) :
                        AskAdder(p)

SpecTok == Init /\ [][NextTok]_vars

(***************************************************************************)
(* The batch samplers on every first draw: the seeded generator's first    *)
(* outputs are any window start (nanoGPT) or any operand pair (adder).     *)
(***************************************************************************)
NanoRowSeeds ==
  {[seed_cell(rng, 1) EXCEPT !.torch.pending = << i >>] :
     i \in 0..(n - block_size - 1)}

AdderRowSeeds ==
  {[seed_cell(rng, 42) EXCEPT !.py.pending = << a, b >>] :
     a \in 0..(Pow10(ndigit) - 1), b \in 0..(Pow10(ndigit) - 1)}
  \cup {[seed_cell(rng, 42) EXCEPT
           !.py.pending = << 0, 0, Pow10(ndigit) - 1, Pow10(ndigit) - 1 >>]}

\* the seeding cell overwrites the generator state, so one fresh state stands
\* for all of them
InitRows == Init /\ rng.py.s = 0 /\ rng2.py.s = 0

NextRows ==
  \/ pc = "fresh" /\ \E g \in NanoRowSeeds : NanoSetupWith(g, g)
  \/ pc = "fresh" /\ \E g \in AdderRowSeeds : AdderSetupWith(g, g)
  \/ \E split \in {"train", "val"} : GetBatchCall(split)
  \/ \E num_samples \in 1..MaxTests : DatasetInit(num_samples)

SpecRows == InitRows /\ [][NextRows]_vars

(***************************************************************************)
(* The split and the nanoGPT sampler on texts of other lengths: the text   *)
(* cut after its first k tokens, k up to MaxData, and the whole text.      *)
(***************************************************************************)
Texts == {SubSeq(data, 1, k) : k \in 0..MaxData} \cup {data}

InitSplit == InitRows /\ nb = "nanogpt"

NextSplit ==
  \/ pc = "fresh" /\ \E d \in Texts : \E g \in NanoRowSeeds :
                        NanoSetupOf(d, g, g)
  \/ \E split \in {"train", "val"} : GetBatchCall(split)

SpecSplit == InitSplit /\ [][NextSplit]_vars

(***************************************************************************)
(* The tokenizers.                                                         *)
(***************************************************************************)
\* every word and mark of s is a token of the vocabulary
BuiltFromVocabulary(s) ==
  \A w \in Range(findall(lower(s))) : w \in DOMAIN stoi

\* C1: the nanoGPT word tokenizer round-trips: for a string s built only from
\* vocabulary tokens encode(decode(encode(s))) = encode(s), and for a list l of
\* valid ids encode(decode(l)) = l, the marks decode attaches without a space
\* and the tokens ' and - included.
TokenizerRoundTrip ==
  /\ (call.op = "encode" /\ BuiltFromVocabulary(call.arg))
       => encode(decode(call.res.val)) = call.res.val
  /\ (call.op = "decode" /\ call.res.ok)
       => encode(call.res.val) = call.arg

\* decode was called on three ids: a word, a mark it attaches and the token '
TokenizerRoundTripWitness ==
  /\ call.op = "decode" /\ call.res.ok /\ Len(call.arg) = MaxLen
  /\ stoi[S(<< "a" >>)] \in Range(call.arg)
  /\ stoi[S(<< "," >>)] \in Range(call.arg)
  /\ stoi[S(<< "'" >>)] \in Range(call.arg)

\* C2: the adder character tokenizer round-trips: for a string s over the input
\* vocabulary, padded or not, decode_input(encode_input(s)) = s, and for a list
\* l of ids of 0..input_vocab_size-1 encode_input(decode_input(l)) = l.
CharTokenizerRoundTrip ==
  /\ (call.op = "encode_input" /\ call.res.ok)
       => decode_input(call.res.val) = call.arg
  /\ (call.op = "decode_input" /\ call.res.ok)
       => encode_input(call.res.val) = call.arg

\* encode_input was called on a question padded to max_question_length
CharTokenizerRoundTripWitness ==
  /\ call.op = "encode_input" /\ call.res.ok
  /\ Len(call.arg) = max_question_length
  /\ call.arg[1] # Ord(" ") /\ call.arg[1] # call.arg[2]
  /\ call.arg[max_question_length] = Ord(" ")

(***************************************************************************)
(* The batches.                                                            *)
(***************************************************************************)
\* C3: every call of the nanoGPT get_batch(split), split 'train' or 'val' and
\* longer than block_size, returns x and y of the one shape
\* batch_size x block_size.
NanoBatchShape ==
  (nb = "nanogpt" /\ call.op = "get_batch")
    => /\ call.res.ok
       /\ xb.shape = << batch_size, block_size >>
       /\ yb.shape = << batch_size, block_size >>

\* a batch whose first window starts at the last start torch.randint can draw
NanoBatchShapeWitness ==
  /\ nb = "nanogpt" /\ call.op = "get_batch" /\ call.res.ok
  /\ operands[1] = Len(train_data) - block_size - 1

\* C4 as stated: every batch (x, y) of the adder's get_batch() has x and y of
\* the one shape batch_size x max_question_length.
AdderBatchSameShape ==
  (nb = "adder" /\ call.op = "get_batch" /\ call.res.ok)
    => /\ xb.shape = << batch_size, max_question_length >>
       /\ yb.shape = xb.shape

\* C4, amended: every batch (x, y) of the adder's get_batch() has x of shape
\* batch_size x max_question_length and y of shape (batch_size,), one integer
\* answer for each row of x.
AdderBatchShape ==
  (nb = "adder" /\ call.op = "get_batch")
    => /\ call.res.ok
       /\ xb.shape = << batch_size, max_question_length >>
       /\ yb.shape = << batch_size >>

\* the adder's get_batch returned a batch
AdderBatchShapeWitness ==
  /\ nb = "adder" /\ call.op = "get_batch" /\ call.res.ok
  /\ Len(xb.data) = batch_size /\ Len(yb.data) = batch_size

\* C5: every encoded question the adder's sampler puts in a batch, and every
\* item of ModifiedAdditionDataset, has length max_question_length =
\* 2*ndigit + 2, whatever the operands a, b of 0..10^ndigit - 1.
PaddedQuestionLength ==
  /\ max_question_length = 2 * ndigit + 2
  /\ (nb = "adder" /\ call.op = "get_batch")
       => /\ call.res.ok
          /\ \A i \in 1..batch_size :
               Len(xb.data[i]) = max_question_length
  /\ call.op = "ModifiedAdditionDataset"
       => /\ call.res.ok
          /\ Len(train_dataset.questions) = Len(call.arg)
          /\ \A i \in 1..Len(train_dataset.questions) :
               Len(train_dataset.questions[i]) = max_question_length

\* a batch whose first question is the shortest there is, 0+0=
PaddedQuestionLengthWitness ==
  /\ nb = "adder" /\ call.op = "get_batch" /\ call.res.ok
  /\ operands[1] = << 0, 0 >>

\* s.strip(): s without its leading and trailing whitespace
strip(s) ==
  LET inked == {i \in 1..Len(s) : ~IsSpaceChar(s[i])}
  IN  IF inked = {} THEN << >>
      ELSE SubSeq(s, CHOOSE i \in inked : \A j \in inked : i <= j,
                     CHOOSE i \in inked : \A j \in inked : j <= i)

\* ds is a decimal numeral with no leading zero
IsDecimal(ds) ==
  /\ Len(ds) >= 1
  /\ \A k \in 1..Len(ds) : ds[k] \in Ord("0")..Ord("9")
  /\ Len(ds) > 1 => ds[1] # Ord("0")

\* the number a decimal numeral denotes
RECURSIVE int_of(_)
int_of(ds) ==
  IF Len(ds) = 0 THEN 0
  ELSE 10 * int_of(SubSeq(ds, 1, Len(ds) - 1)) + (ds[Len(ds)] - Ord("0"))

\* q is the numeral of a, a plus sign, the numeral of b and an equals sign
ReadsAs(q, a, b) ==
  \E k \in 1..Len(q) :
    /\ q[k] = Ord("+") /\ q[Len(q)] = Ord("=")
    /\ IsDecimal(SubSeq(q, 1, k - 1)) /\ int_of(SubSeq(q, 1, k - 1)) = a
    /\ IsDecimal(SubSeq(q, k + 1, Len(q) - 1))
    /\ int_of(SubSeq(q, k + 1, Len(q) - 1)) = b

\* the row reads as the question of the operands ab and its label is their sum
RowIsSumOf(row, label, ab) ==
  /\ ab[1] \in 0..(Pow10(ndigit) - 1) /\ ab[2] \in 0..(Pow10(ndigit) - 1)
  /\ ReadsAs(strip(decode_input(row)), ab[1], ab[2])
  /\ label = ab[1] + ab[2]

\* C7: generate_addition_data returns the question 'a+b=' of the two operands
\* it drew in 0..10^num_digits - 1, in decimal with no leading zero or padding,
\* and the answer a + b; each row of a batch, decoded and stripped, and its
\* label are such a pair.
LabelIsSum ==
  /\ (nb = "adder" /\ call.op = "get_batch")
       => /\ call.res.ok /\ Len(operands) = batch_size
          /\ \A i \in 1..batch_size :
               RowIsSumOf(xb.data[i], yb.data[i], operands[i])
  /\ call.op = "ModifiedAdditionDataset"
       => /\ call.res.ok
          /\ Len(train_dataset.questions) = Len(call.arg)
          /\ \A i \in 1..Len(call.arg) :
               RowIsSumOf(train_dataset.questions[i],
                          train_dataset.answers[i], call.arg[i])

\* a batch whose first row is 99+1=, the sum one digit longer than the operands
LabelIsSumWitness ==
  /\ nb = "adder" /\ call.op = "get_batch" /\ call.res.ok
  /\ operands[1] = << 99, 1 >> /\ yb.data[1] = 100

(***************************************************************************)
(* What the model is fed.                                                  *)
(***************************************************************************)
\* C6: every encoded question that ask_adder and test_model_addition pass to
\* the model has length max_question_length, whatever the problem_input over
\* the input vocabulary and whatever num_digits_test.
ModelQuestionLength ==
  (call.op \in {"ask_adder", "test_model_addition"} /\ fed # NoTensor)
    => fed.shape = << 1, max_question_length >>

(***************************************************************************)
(* Two runs from the same seeds.                                           *)
(***************************************************************************)
\* C8: two runs that start from the same seeds and make the same calls get the
\* same batch at every call, from the nanoGPT get_batch and from the adder's.
SameSeedsSameBatches ==
  pc # "fresh" => (xb = xb2 /\ yb = yb2)

\* the training loop of the nanoGPT notebook has drawn its third batch
SameSeedsSameBatchesWitness ==
  /\ nb = "nanogpt" /\ pc = "train" /\ updates = 2
  /\ xb # NoTensor /\ xb2 # NoTensor

(***************************************************************************)
(* The vocabulary.                                                         *)
(***************************************************************************)
\* s2i and i2s are inverse bijections between tokens and 0..size-1
MutuallyInverse(s2i, i2s, size, tokens) ==
  /\ DOMAIN s2i = tokens /\ DOMAIN i2s = 0..(size - 1)
  /\ \A w \in tokens : s2i[w] \in 0..(size - 1) /\ i2s[s2i[w]] = w
  /\ \A i \in 0..(size - 1) : i2s[i] \in tokens /\ s2i[i2s[i]] = i

\* C9: in both notebooks the vocabulary mappings are inverse bijections
\* between the token set and the ids 0..vocab_size-1: itos[stoi[w]] = w for
\* every token and stoi[itos[i]] = i for every id.
VocabularyBijection ==
  pc # "fresh" =>
    IF nb = "nanogpt"
    THEN MutuallyInverse(stoi, itos, vocab_size, Range(words))
    ELSE MutuallyInverse(input_stoi, input_itos, input_vocab_size,
                         Range(input_chars))

\* the nanoGPT vocabulary is built, a word for every id
VocabularyBijectionWitness ==
  /\ pc = "idle" /\ nb = "nanogpt"
  /\ vocab_size = Cardinality(Range(words)) /\ vocab_size > 1

\* C10: once the vocabulary is built no later operation changes it: encode,
\* decode, get_batch, estimate_loss, the training loop, the generation loop,
\* test_model_addition and ask_adder leave both mappings and the vocabulary
\* size as they are, unknown tokens in the input or not.
VocabularyUnchanged == [][pc # "fresh" => UNCHANGED vocab]_vars

\* encode has run on a string with a word outside the vocabulary
VocabularyUnchangedWitness ==
  /\ call.op = "encode" /\ ~BuiltFromVocabulary(call.arg)
  /\ vocab_size = Cardinality(Range(words))
(***************************************************************************)
(* Errors of the tokenizers.                                               *)
(***************************************************************************)
\* s has a word or mark that is not a token of the vocabulary
HasUnknownToken(s) ==
  \E w \in Range(findall(lower(s))) : w \notin Range(unique_words)

\* ids names, in order, the words of ws that are tokens of the vocabulary
NamesKnownWords(ids, ws) ==
  /\ \A k \in 1..Len(ids) : ids[k] \in DOMAIN itos
  /\ [k \in 1..Len(ids) |-> itos[ids[k]]]
       = SelectSeq(ws, LAMBDA w : w \in Range(unique_words))

\* C11 as stated: in the nanoGPT tokenizer, encode of a string with a token
\* that is not in the vocabulary ends in an error and returns no result.
EncodeRaisesOnUnknown ==
  (call.op = "encode" /\ HasUnknownToken(call.arg)) => ~call.res.ok

\* C11: in the nanoGPT tokenizer, encode never raises: it returns the ids of
\* the tokens of the string that are in the vocabulary, in order, and leaves
\* out every token that is not.
EncodeDropsUnknown ==
  call.op = "encode"
    => /\ call.res.ok
       /\ NamesKnownWords(call.res.val, findall(lower(call.arg)))

\* encode was called on a string with a known and an unknown token and
\* returned the id of the known one
EncodeDropsUnknownWitness ==
  /\ call.op = "encode" /\ HasUnknownToken(call.arg)
  /\ \E w \in Range(findall(lower(call.arg))) : w \in Range(unique_words)
  /\ call.res.ok /\ Len(call.res.val) = 1

\* s has a character outside '0123456789+= '
HasOtherChar(s) ==
  \E k \in 1..Len(s) :
    s[k] \notin Range(S(<< "0", "1", "2", "3", "4", "5", "6", "7", "8", "9",
                           "+", "=", " " >>))

\* C12: in the adder tokenizer, encode_input(s) ends in an error for every
\* string s with a character outside '0123456789+= ' and returns no partial
\* encoding; ask_adder, which pads and encodes such an input, ends in the same
\* error, not caught and not translated, before the model is called.
EncodeInputRaises ==
  /\ (call.op = "encode_input" /\ HasOtherChar(call.arg))
       => call.res = Raise("KeyError")
  /\ (call.op = "ask_adder" /\ HasOtherChar(call.arg))
       => call.res = Raise("KeyError") /\ fed = NoTensor

\* ask_adder was called on an input with a digit before a character that is
\* not of the vocabulary, and ended in the error of encode_input
EncodeInputRaisesWitness ==
  /\ call.op = "ask_adder" /\ Len(call.arg) = MaxLen
  /\ call.arg[1] = Ord("1") /\ HasOtherChar(call.arg)
  /\ ~call.res.ok /\ call.res.err = "KeyError"

(***************************************************************************)
(* The nanoGPT generation loop.                                            *)
(***************************************************************************)
\* C13: at every iteration of the nanoGPT generation loop the sequence fed to
\* the model is exactly the last min(len(generated), block_size) tokens of the
\* sequence generated so far, so the model input is never longer than
\* block_size, the model's n_positions, also when the starting context is
\* longer than block_size.
GenerationWindow ==
  [][(pc = "generate" /\ gk < max_new_tokens)
       => /\ fed'.shape = << 1, Min(Len(generated), block_size) >>
          /\ \A t \in 1..fed'.shape[2] :
               fed'.data[1][t] = generated[Len(generated) - fed'.shape[2] + t]
          /\ fed'.shape[2] <= block_size /\ n_positions = block_size]_vars

\* the loop ran on a starting context longer than block_size and fed the
\* model block_size tokens
GenerationWindowWitness ==
  /\ pc = "generate" /\ gk > 0
  /\ Len(generated) - gk > block_size
  /\ fed.shape = << 1, block_size >>

\* the generation cell is running or has run to its end on a starting context
\* of at least one token
GenerationOf(context) ==
  /\ call.op = "generate" /\ Len(context) > 0
  /\ pc = "generate" \/ (pc = "idle" /\ call.res.ok)

\* C14: the nanoGPT generation loop ends after exactly max_new_tokens (50 in
\* the notebook) iterations, each appending exactly one sampled token whatever
\* the token is (there is no stop token), so the final sequence is the
\* starting context followed by max_new_tokens tokens.
GenerationLength ==
  /\ [](GenerationOf(encode(call.arg))
          => /\ gk \in 0..max_new_tokens
             /\ Len(generated) = Len(encode(call.arg)) + gk
             /\ SubSeq(generated, 1, Len(encode(call.arg))) = encode(call.arg)
             /\ pc = "idle" => gk = max_new_tokens)
  /\ [][(pc = "generate" /\ Len(generated) > 0 /\ gk < max_new_tokens)
          => /\ pc' = "generate" /\ gk' = gk + 1
             /\ Len(generated') = Len(generated) + 1
             /\ SubSeq(generated', 1, Len(generated)) = generated
             /\ generated'[Len(generated')] \in 0..(vocab_size - 1)]_vars

\* the cell ran to its end on the notebook's starting context
GenerationLengthWitness ==
  /\ pc = "idle" /\ call.op = "generate" /\ call.res.ok
  /\ call.arg = text_test
  /\ Len(generated) = Len(encode(text_test)) + max_new_tokens

(***************************************************************************)
(* The training loops.                                                     *)
(***************************************************************************)
\* the training cell is running, estimate_loss within it included, or has
\* run to its end
Training == call.op = "train" /\ call.res.ok

\* C15: in both training loops the parameters are updated exactly once per
\* iteration: after k completed iterations exactly k optimizer updates have
\* happened, max_iters when the loop has ended, and the estimate_loss calls
\* in between add no update.
OneUpdatePerIteration ==
  /\ [](Training
          => /\ iter_num \in 0..max_iters /\ updates = iter_num
             /\ pc = "idle" => updates = max_iters
             /\ \A r \in 1..Len(reports) : reports[r].updates = reports[r].step)
  /\ [][pc = "estimate" => updates' = updates]_vars
  /\ [][(pc = "train" /\ iter_num' # iter_num)
          => iter_num' = iter_num + 1 /\ updates' = updates + 1]_vars

\* a training loop ran to its end, with an evaluation in its last iteration
OneUpdatePerIterationWitness ==
  /\ Training /\ pc = "idle" /\ updates = max_iters
  /\ Len(reports) > 1 /\ reports[Len(reports)].step = max_iters - 1

\* iteration k meets the condition of the evaluation branch
DueAt(k) == k % eval_interval = 0 \/ k = max_iters - 1

\* iteration k has passed its evaluation branch
BranchPassed(k) == k < iter_num \/ (k = iter_num /\ evaluated)

\* the number of metrics lines printed for step k
ReportsOf(k) == Cardinality({r \in 1..Len(reports) : reports[r].step = k})

\* C16: in both training loops estimate_loss runs and its metrics are printed
\* in iteration k if and only if k % eval_interval = 0 or k = max_iters - 1,
\* and once only even when both hold: the metrics are reported at step 0, at
\* every multiple of eval_interval below max_iters and at the last step, in
\* that order.
EvaluatedWhenDue ==
  Training
    => /\ \A k \in 0..(max_iters - 1) :
            ReportsOf(k) = IF DueAt(k) /\ BranchPassed(k) THEN 1 ELSE 0
       /\ \A r \in 1..Len(reports) : reports[r].step \in 0..(max_iters - 1)
       /\ \A r \in 2..Len(reports) : reports[r - 1].step < reports[r].step
       /\ (pc = "estimate" /\ caller = "train")
            => DueAt(iter_num) /\ ~evaluated
       /\ pc = "idle"
            => /\ iter_num = max_iters
               /\ reports[1].step = 0
               /\ reports[Len(reports)].step = max_iters - 1

\* the adder's loop ran to its end: its last step, not a multiple of
\* eval_interval, was reported after a multiple that is not 0
EvaluatedWhenDueWitness ==
  /\ Training /\ pc = "idle" /\ nb = "adder"
  /\ (max_iters - 1) % eval_interval # 0
  /\ Len(reports) > 2
  /\ reports[Len(reports) - 1].step = eval_interval
  /\ reports[Len(reports)].step = max_iters - 1

(***************************************************************************)
(* The rows of a batch.                                                    *)
(***************************************************************************)
\* the split get_batch was called with
SelectedSplit ==
  IF call.arg = S(<< "t", "r", "a", "i", "n" >>) THEN train_data ELSE val_data

\* row b of x is d[i .. i+block_size-1] and row b of y is d[i+1 .. i+block_size]
\* (d indexed from 0)
IsWindowAt(d, b, i) ==
  /\ i + block_size < Len(d)
  /\ \A t \in 1..block_size : xb.data[b][t] = d[i + t]
  /\ \A t \in 1..block_size : yb.data[b][t] = d[i + t + 1]

\* C17: every row b of a nanoGPT batch is a contiguous window of the selected
\* split and its shift by one: for a start i, x[b] = data[i .. i+block_size-1]
\* and y[b] = data[i+1 .. i+block_size]; hence y[b][t] = x[b][t+1] for
\* t < block_size - 1, and the last of y[b] is the token after the window.
RowsAreShiftedWindows ==
  (nb = "nanogpt" /\ call.op = "get_batch" /\ call.res.ok)
    => \A b \in 1..batch_size :
         /\ \E i \in 0..(Len(SelectedSplit) - 1) : IsWindowAt(SelectedSplit, b, i)
         /\ \A t \in 1..(block_size - 1) : yb.data[b][t] = xb.data[b][t + 1]

\* a batch of the validation split whose rows start at different places, the
\* first at the last start there is
RowsAreShiftedWindowsWitness ==
  /\ nb = "nanogpt" /\ call.op = "get_batch" /\ call.res.ok
  /\ call.arg = S(<< "v", "a", "l" >>)
  /\ operands[1] = Len(val_data) - block_size - 1
  /\ operands[2] # operands[1]
  /\ yb.data[1][block_size] = val_data[Len(val_data)]

\* C18: every answer of generate_addition_data(ndigit) lies in 0..max_answer,
\* max_answer = 2*(10^ndigit - 1), so every label of a batch or of the dataset
\* is a class index below num_answer_classes = max_answer + 1; the two ends 0
\* and max_answer are labels that occur.
LabelsAreClasses ==
  /\ max_answer = 2 * (Pow10(ndigit) - 1)
  /\ num_answer_classes = max_answer + 1
  /\ (nb = "adder" /\ call.op = "get_batch" /\ call.res.ok)
       => \A i \in 1..batch_size :
            yb.data[i] \in 0..max_answer /\ yb.data[i] < num_answer_classes
  /\ (call.op = "ModifiedAdditionDataset" /\ call.res.ok)
       => \A i \in 1..Len(train_dataset.answers) :
            /\ train_dataset.answers[i] \in 0..max_answer
            /\ train_dataset.answers[i] < num_answer_classes

\* a batch with the two ends as labels: 0+0= and, for ndigit = 2, 99+99=
LabelsAreClassesWitness ==
  /\ nb = "adder" /\ call.op = "get_batch" /\ call.res.ok
  /\ yb.data[1] = 0 /\ yb.data[2] = max_answer
  /\ max_answer = 198

\* the text of row i of x is q followed by spaces, and by nothing else, up to
\* max_question_length
PaddedAtEnd(row, q) ==
  /\ Len(q) <= max_question_length
  /\ Len(row) = max_question_length
  /\ SubSeq(row, 1, Len(q)) = q
  /\ \A k \in (Len(q) + 1)..max_question_length : row[k] = Ord(" ")

LastPositionIsEquals ==
  (nb = "adder" /\ fed # NoTensor)
    => \A b \in 1..Len(fed.data) :
         fed.data[b][Len(fed.data[b])] = input_stoi[Ord("=")]

(***************************************************************************)
(* ask_adder.                                                              *)
(***************************************************************************)
\* p ends with '='
EndsWithEquals(p) == Len(p) > 0 /\ p[Len(p)] = Ord("=")

\* row is p, then '=' exactly when p does not end with it, then spaces only
NormalisedRow(row, p, appended) ==
  /\ Len(row) >= Len(p) + appended
  /\ SubSeq(row, 1, Len(p)) = p
  /\ appended = 1 => row[Len(p) + 1] = Ord("=")
  /\ \A k \in (Len(p) + appended + 1)..Len(row) : row[k] = Ord(" ")

\* C21: ask_adder normalises its input so that the question given to the
\* model always ends with '=': '=' is appended exactly when the input does not
\* end with '=', so ask_adder('a+b') and ask_adder('a+b=') give the model the
\* same encoded question, and normalising twice is normalising once.
AskNormalises ==
  (call.op = "ask_adder" /\ fed # NoTensor)
    => /\ NormalisedRow(decode_input(fed.data[1]), call.arg,
                        IF EndsWithEquals(call.arg) THEN 0 ELSE 1)
       /\ ~EndsWithEquals(call.arg)
            => fed.data[1]
                 = pad_and_encode(ask_question(call.arg \o << Ord("=") >>)).val
       /\ call.res.ok
            => /\ EndsWithEquals(call.res.val)
               /\ ask_question(call.res.val) = call.res.val

\* ask_adder was called on 1+1, with no '=' at its end, and asked 1+1=
AskNormalisesWitness ==
  /\ call.op = "ask_adder" /\ call.res.ok
  /\ call.arg = S(<< "1", "+", "1" >>)
  /\ call.res.val = S(<< "1", "+", "1", "=" >>)
  /\ decode_input(fed.data[1]) = S(<< "1", "+", "1", "=", " ", " " >>)

StepsInOrder ==
  /\ [][(pc = "train" /\ iter_num' = iter_num + 1)
          => /\ fed' = xb'
             /\ stepped' = << [step |-> iter_num] >>
             /\ grad' = stepped']_vars
  /\ [][pc = "estimate" => grad' = grad /\ stepped' = stepped]_vars

\* an update made while the gradients of the iteration before were still in
\* .grad: it applied those of its own loss only
StepsInOrderWitness ==
  /\ pc = "train" /\ iter_num > 1
  /\ updates = iter_num
  /\ stepped = << [step |-> iter_num - 1] >>
  /\ fed = xb /\ fed # NoTensor

(***************************************************************************)
(* The mode of the model.                                                  *)
(***************************************************************************)
\* C24: every evaluation helper (estimate_loss of both notebooks,
\* test_model_addition, ask_adder) puts the model in evaluation mode before
\* its first forward pass and leaves it in training mode when it returns
\* normally, whatever the mode before the call; hence every forward and
\* backward pass of the training loop runs in training mode.
HelpersRestoreTraining ==
  /\ [](/\ pc \in {"estimate", "test"} => mode = "eval"
        /\ (call.op = "ask_adder" /\ pc = "idle")
             => mode = IF call.res.ok THEN "train" ELSE "eval")
  /\ [][(pc \in {"estimate", "test"} /\ pc' \notin {"estimate", "test"}
           /\ call'.res.ok)
          => mode' = "train"]_vars
  /\ [][(pc = "train" /\ iter_num' = iter_num + 1)
          => mode = "train" /\ mode' = "train"]_vars

\* the second update of a loop, in training mode, right after the estimate_loss
\* of an evaluation step
HelpersRestoreTrainingWitness ==
  /\ pc = "train" /\ mode = "train"
  /\ iter_num = eval_interval + 1 /\ updates = iter_num
  /\ Len(reports) = 2 /\ reports[2].step = eval_interval

\* C25: in both training loops the evaluation of iteration k comes before the
\* optimizer step of iteration k, so the metrics printed at step k measure the
\* model after exactly k updates: the last report, of step max_iters - 1, does
\* not include the last update, and the model left after training has one
\* update more than any metric reported.
EvaluationBeforeStep ==
  /\ [](Training
          => /\ \A r \in 1..Len(reports) :
                  /\ reports[r].updates = reports[r].step
                  /\ reports[r].updates <= updates
             /\ pc = "idle"
                  => /\ reports[Len(reports)] =
                          [step |-> max_iters - 1, updates |-> max_iters - 1]
                     /\ updates = max_iters
                     /\ \A r \in 1..Len(reports) : reports[r].updates < updates)
  /\ [][(pc = "estimate" /\ pc' = "train")
          => /\ reports' = Append(reports,
                                  [step |-> iter_num, updates |-> iter_num])
             /\ updates' = iter_num /\ iter_num' = iter_num]_vars
  /\ [][(pc = "train" /\ iter_num' = iter_num + 1 /\ DueAt(iter_num))
          => /\ Len(reports) > 0
             /\ reports[Len(reports)].step = iter_num
             /\ reports[Len(reports)].updates = updates
             /\ updates' = updates + 1]_vars

\* the nanoGPT loop has ended: max_iters updates made, the last metrics
\* reported after max_iters - 1 of them
EvaluationBeforeStepWitness ==
  /\ Training /\ pc = "idle" /\ nb = "nanogpt"
  /\ updates = max_iters
  /\ reports[Len(reports)].updates = max_iters - 1

\* C26: the nanoGPT get_batch draws every window start from
\* 0..len(split) - block_size - 1, so every x window and every y window lies
\* whole inside the selected split, with no read past its end and no token of
\* the other split; when len(split) <= block_size the call ends in an error
\* and returns no batch, short or empty.
WindowsInsideSplit ==
  (nb = "nanogpt" /\ call.op = "get_batch")
    => IF Len(SelectedSplit) <= block_size
       THEN ~call.res.ok /\ call.res.val = << >>
       ELSE /\ call.res.ok
            /\ Len(operands) = batch_size
            /\ Len(xb.data) = batch_size /\ Len(yb.data) = batch_size
            /\ \A b \in 1..batch_size :
                 /\ operands[b] \in 0..(Len(SelectedSplit) - block_size - 1)
                 /\ Len(xb.data[b]) = block_size
                 /\ Len(yb.data[b]) = block_size
                 /\ IsWindowAt(SelectedSplit, b, operands[b])

\* a batch of a split of block_size + 1 tokens: the one window there is
WindowsInsideSplitWitness ==
  /\ nb = "nanogpt" /\ call.op = "get_batch" /\ call.res.ok
  /\ Len(SelectedSplit) = block_size + 1
  /\ operands[1] = 0 /\ yb.data[1][block_size] = SelectedSplit[block_size + 1]

=============================================================================
